---- MODULE Spec2Model ----
(***************************************************************************)
(* Model of the events-app server actions (user, category, event and order *)
(* handlers over the document store), the checkout function, the URL-query *)
(* helpers of lib/utils.ts and the Pagination control.                     *)
(*                                                                         *)
(* A handler runs atomically between two awaits; every awaited database    *)
(* operation is one step.  Handlers with a single database operation are   *)
(* one action; handlers with several keep their position and locals in a   *)
(* slot of `calls` between steps, so that other handlers interleave.       *)
(* `last` is the outcome of the invocation the last step completed, and    *)
(* NoCall after a step that completed none.                                *)
(***************************************************************************)
EXTENDS Integers, Sequences, FiniteSets, TLC

(* ------------------------------ bounds -------------------------------- *)
\* documents ever created per collection (ids are never reused)
MaxUsers == 1
MaxEvents == 1
MaxCategories == 1
MaxOrders == 1
\* handler invocations in flight at the same time
MaxCalls == 2
\* distinct creation timestamps
MaxTime == 2
MaxPageDocs == 3
MaxParams == 3
MaxFilterDocs == 2
MaxTotalPages == 3

(* ------------------------------ values -------------------------------- *)
\* an ObjectId that no document ever has
BogusId == 0
\* a field that is not set on a document
Unset == -1

Calls == 1..MaxCalls

\* JavaScript values returned to the caller
Null == [kind |-> "null"]
Undefined == [kind |-> "undefined"]
Doc(coll, id) == [kind |-> "doc", coll |-> coll, id |-> id]
Docs(coll, ids) == [kind |-> "docs", coll |-> coll, ids |-> ids]
Page(data, totalPages) == [kind |-> "page", data |-> data, totalPages |-> totalPages]

\* values that can be thrown
NoError == [type |-> "none", name |-> "", message |-> ""]
NewError(message) == [type |-> "object", name |-> "Error", message |-> message]
\* a rejection of the database driver (connection or operation failure)
DbFault == [type |-> "object", name |-> "MongoError", message |-> "db"]

VARIABLES users, events, categories, orders, nextId, now, calls, last

dbvars == <<users, events, categories, orders, nextId, now>>
vars == <<users, events, categories, orders, nextId, now, calls, last>>

Idle == [op |-> "idle"]
NoCall == [op |-> "none"]

(* --------------------------- lib/utils.ts ----------------------------- *)
\* JSON.stringify of a thrown value: an Error has no enumerable own
\* property, a driver error carries its fields
JSONstringify(error) ==
    IF error.name = "Error" THEN "{}" ELSE "{driver}"

handleErrorNoThrow(error) ==
    [outcome |-> "returned", logs |-> 1, thrown |-> NoError]

\* console.error(error); throw new Error(typeof error === 'string' ? ...)
handleError(error) ==
    [outcome |-> "threw", logs |-> 1,
     thrown |-> NewError(IF error.type = "string" THEN error.message
                         ELSE JSONstringify(error))]

\* the invocation returned `value`; `obs` are the locals it read on the way
Returned(op, args, obs, value, reval) ==
    [op |-> op, args |-> args, obs |-> obs, outcome |-> "returned", value |-> value,
     failed |-> FALSE, logs |-> 0, revalidated |-> reval, thrown |-> NoError]

\* the try block threw `error`: catch (error) { handleError(error) }
Caught(op, args, obs, error, reval) ==
    LET h == handleError(error) IN
    [op |-> op, args |-> args, obs |-> obs, outcome |-> h.outcome, value |-> Undefined,
     failed |-> TRUE, logs |-> h.logs, revalidated |-> reval, thrown |-> h.thrown]

NoObs == [none |-> TRUE]

(* ------------------------------ store --------------------------------- *)
Exists(coll, id) == id \in DOMAIN coll

Remove(coll, id) == [d \in DOMAIN coll \ {id} |-> coll[d]]

Insert(coll, id, doc) == [d \in DOMAIN coll \cup {id} |-> IF d = id THEN doc ELSE coll[d]]

FreeSlot(c) == calls[c] = Idle /\ \A d \in Calls : d < c => calls[d] # Idle

Init ==
    /\ users = << >>
    /\ events = << >>
    /\ categories = << >>
    /\ orders = << >>
    /\ nextId = [user |-> 1, event |-> 1, category |-> 1, order |-> 1]
    /\ now = 1
    /\ calls = [c \in Calls |-> Idle]
    /\ last = NoCall

(* ----------------------- actions/user.actions.ts ---------------------- *)
\* createUser(user): User.create(user)
createUser(user, fault) ==
    /\ IF fault
       THEN /\ last' = Caught("createUser", user, NoObs, DbFault, {})
            /\ UNCHANGED <<users, nextId>>
       ELSE /\ users' = Insert(users, nextId.user, user)
            /\ nextId' = [nextId EXCEPT !.user = @ + 1]
            /\ last' = Returned("createUser", user, NoObs, Doc("users", nextId.user), {})
    /\ UNCHANGED <<events, categories, orders, now, calls>>

getUserByIdAndDelete(userId, fault) ==
    /\ last' = IF fault THEN Caught("getUserById", [userId |-> userId], NoObs, DbFault, {})
               ELSE IF ~Exists(users, userId)
               THEN Caught("getUserById", [userId |-> userId], NoObs, NewError("User not found"), {})
               ELSE Returned("getUserById", [userId |-> userId], NoObs, Doc("users", userId), {})
    /\ users' = IF fault THEN users ELSE Remove(users, userId)
    /\ UNCHANGED <<events, categories, orders, nextId, now, calls>>

\* getUserById(userId): User.findById(userId)
getUserById(userId, fault) ==
    /\ last' = IF fault THEN Caught("getUserById", [userId |-> userId], NoObs, DbFault, {})
               ELSE IF ~Exists(users, userId)
               THEN Caught("getUserById", [userId |-> userId], NoObs, NewError("User not found"), {})
               ELSE Returned("getUserById", [userId |-> userId], NoObs, Doc("users", userId), {})
    /\ UNCHANGED <<dbvars, calls>>

\* User.findOne({ clerkId }): the first user with that clerkId, or none
FindUserByClerkId(clerkId) ==
    LET m == {u \in DOMAIN users : users[u].clerkId = clerkId} IN
    IF m = {} THEN BogusId ELSE CHOOSE u \in m : \A v \in m : u <= v

\* the document with the fields of the update `user` assigned; a field the
\* update does not carry (Keep) stays

Assign(doc, user) ==
    [f \in DOMAIN doc |-> IF f \in DOMAIN user THEN user[f] ELSE doc[f]]

\* updateUser(clerkId, user): User.findOneAndUpdate({ clerkId }, user, { new: true })
updateUser(clerkId, user, fault) ==
    LET args == [clerkId |-> clerkId]
        u == FindUserByClerkId(clerkId) IN
    /\ IF fault
       THEN /\ last' = Caught("updateUser", args, NoObs, DbFault, {})
            /\ UNCHANGED users
       ELSE IF u = BogusId
       THEN /\ last' = Caught("updateUser", args, NoObs, NewError("User update failed"), {})
            /\ UNCHANGED users
       ELSE /\ users' = [users EXCEPT ![u] = Assign(@, user)]
            /\ last' = Returned("updateUser", args, NoObs, Doc("users", u), {})
    /\ UNCHANGED <<events, categories, orders, nextId, now, calls>>

\* Event.updateMany({ _id: { $in: ids } }, { $pull: { organizer: value } }):
\* organizer is a single ObjectId, and the store rejects $pull on a field
\* that is present and not an array; a document without the field is left
\* alone.  "error" or the collection after the update.
PullOrganizer(ids, value) ==
    IF \E e \in ids \cap DOMAIN events : events[e].organizer # Unset
    THEN "error" ELSE "ok"

UnsetBuyerNoop(ids) == orders

\* Order.updateMany({ _id: { $in: ids } }, { $unset: { buyer: 1 } })
UnsetBuyer(ids) ==
    [o \in DOMAIN orders |->
        IF o \in ids THEN [orders[o] EXCEPT !.buyer = Unset] ELSE orders[o]]

\* deleteUser, up to the lookup: User.findOne({ clerkId })
deleteUserFind(c, clerkId, fault) ==
    LET args == [clerkId |-> clerkId]
        u == FindUserByClerkId(clerkId) IN
    /\ FreeSlot(c)
    /\ IF fault
       THEN /\ last' = Caught("deleteUser", args, [userToDelete |-> Unset], DbFault, {})
            /\ UNCHANGED calls
       ELSE IF u = BogusId
       THEN /\ last' = Caught("deleteUser", args, [userToDelete |-> BogusId],
                              NewError("User not found"), {})
            /\ UNCHANGED calls
       ELSE /\ calls' = [calls EXCEPT ![c] =
                  [op |-> "deleteUser", pc |-> "unlink", args |-> args,
                   userToDelete |-> [_id |-> u, events |-> users[u].events,
                                     orders |-> users[u].orders],
                   eventsDone |-> FALSE, ordersDone |-> FALSE]]
            /\ last' = NoCall
    /\ UNCHANGED dbvars

\* deleteUser, Promise.all, first member: the events update settles.  When it
\* rejects, Promise.all rejects at once; the orders update was issued with it
\* and, if still pending, may yet be applied by the store (background).
deleteUserUnlinkEvents(c, fault, background) ==
    LET call == calls[c] IN
    /\ call.op = "deleteUser" /\ call.pc = "unlink" /\ ~call.eventsDone
    /\ IF fault \/ PullOrganizer(call.userToDelete.events, call.userToDelete._id) = "error"
       THEN /\ last' = Caught("deleteUser", call.args,
                              [userToDelete |-> call.userToDelete._id], DbFault, {})
            /\ calls' = [calls EXCEPT ![c] = Idle]
            /\ orders' = IF background /\ ~call.ordersDone
                         THEN UnsetBuyer(call.userToDelete.orders) ELSE orders
       ELSE /\ calls' = [calls EXCEPT ![c].eventsDone = TRUE]
            /\ last' = NoCall
            /\ UNCHANGED orders
    /\ UNCHANGED <<users, events, categories, nextId, now>>

\* deleteUser, Promise.all, second member: the orders update settles
deleteUserUnlinkOrders(c, fault) ==
    LET call == calls[c] IN
    /\ call.op = "deleteUser" /\ call.pc = "unlink" /\ ~call.ordersDone
    /\ IF fault
       THEN /\ last' = Caught("deleteUser", call.args,
                              [userToDelete |-> call.userToDelete._id], DbFault, {})
            /\ calls' = [calls EXCEPT ![c] = Idle]
            /\ UNCHANGED orders
       ELSE /\ orders' = UnsetBuyer(call.userToDelete.orders)
            /\ calls' = [calls EXCEPT ![c].ordersDone = TRUE]
            /\ last' = NoCall
    /\ UNCHANGED <<users, events, categories, nextId, now>>

deleteUserDeleteUnawaited(c, fault) ==
    LET call == calls[c]
        u == call.userToDelete._id
        obs == [userToDelete |-> u, events |-> call.userToDelete.events,
                orders |-> call.userToDelete.orders] IN
    /\ call.op = "deleteUser" /\ call.pc = "unlink"
    /\ calls' = [calls EXCEPT ![c] = Idle]
    /\ IF fault
       THEN /\ last' = Caught("deleteUser", call.args, obs, DbFault, {})
            /\ UNCHANGED users
       ELSE /\ users' = Remove(users, u)
            /\ last' = Returned("deleteUser", call.args, obs,
                                IF Exists(users, u) THEN Doc("users", u) ELSE Null, {"/"})
    /\ UNCHANGED <<events, categories, orders, nextId, now>>

\* deleteUser, after Promise.all: User.findByIdAndDelete, revalidatePath('/')
deleteUserDelete(c, fault) ==
    LET call == calls[c]
        u == call.userToDelete._id
        obs == [userToDelete |-> u, events |-> call.userToDelete.events,
                orders |-> call.userToDelete.orders] IN
    /\ call.op = "deleteUser" /\ call.pc = "unlink"
    /\ call.eventsDone /\ call.ordersDone
    /\ calls' = [calls EXCEPT ![c] = Idle]
    /\ IF fault
       THEN /\ last' = Caught("deleteUser", call.args, obs, DbFault, {})
            /\ UNCHANGED users
       ELSE /\ users' = Remove(users, u)
            /\ last' = Returned("deleteUser", call.args, obs,
                                IF Exists(users, u) THEN Doc("users", u) ELSE Null, {"/"})
    /\ UNCHANGED <<events, categories, orders, nextId, now>>

(* ------------------------------ strings ------------------------------- *)
\* a string is a sequence of characters; "" is << >>
Lower(ch) == IF ch = "A" THEN "a" ELSE IF ch = "B" THEN "b" ELSE ch

ToLower(s) == [i \in 1..Len(s) |-> Lower(s[i])]

Contains(s, p) ==
    \E i \in 0..(Len(s) - Len(p)) : SubSeq(s, i + 1, i + Len(p)) = p

\* { $regex: pattern, $options: 'i' } with a pattern of plain letters: the
\* value has the pattern as a substring, letter case ignored
RegexMatchI(pattern, s) == Contains(ToLower(s), ToLower(pattern))

(* ------------------------- queries of the store ------------------------ *)
\* the conditions of an Event query; Unset and "" stand for an absent ({}) member
EventConditions(title, category, organizer, ne) ==
    [title |-> title, category |-> category, organizer |-> organizer, ne |-> ne]

MatchEvent(cond, e) ==
    /\ cond.title = << >> \/ RegexMatchI(cond.title, events[e].title)
    /\ cond.category = Unset \/ events[e].category = cond.category
    /\ cond.organizer = Unset \/ events[e].organizer = cond.organizer
    /\ cond.ne = Unset \/ e # cond.ne

MatchingEvents(cond) == {e \in DOMAIN events : MatchEvent(cond, e)}

MatchingOrders(cond) == {o \in DOMAIN orders : orders[o].buyer = cond.buyer}

\* .sort({ createdAt: 'desc' }): the orders the store may return the
\* documents `ids` of `coll` in (equal timestamps come in any order)
SortCreatedAtDesc(coll, ids) ==
    {s \in [1..Cardinality(ids) -> ids] :
        /\ \A i, j \in 1..Cardinality(ids) : i # j => s[i] # s[j]
        /\ \A i, j \in 1..Cardinality(ids) :
              i < j => coll[s[i]].createdAt >= coll[s[j]].createdAt}

\* .skip(skipAmount).limit(limit)
SkipLimit(s, skipAmount, limit) ==
    SubSeq(s, skipAmount + 1, IF skipAmount + limit < Len(s) THEN skipAmount + limit ELSE Len(s))

MathFloor(n, d) == n \div d

\* Math.ceil(n / d) for n >= 0, d > 0
MathCeil(n, d) == (n + d - 1) \div d

\* a parameter with a default value: `limit = 6`
Default(given, default) == IF given = Unset THEN default ELSE given

(* ------------------- event actions (unnamed/part_001) ------------------ *)
\* the arguments of an event write that identify it: who, which event, which path
Key(args) == [userId |-> args.userId, eventId |-> args.event._id, path |-> args.path]

InFlight(op) == Cardinality({c \in Calls : calls[c].op = op})

OrganizerAssumed(userId) == TRUE

\* const organizer = await User.findById(userId); organizer is truthy
OrganizerFound(userId) == Exists(users, userId)

\* createEvent, up to the lookup: User.findById(userId)
createEventFind(c, userId, event, path, fault) ==
    LET args == [userId |-> userId, event |-> event, path |-> path] IN
    /\ FreeSlot(c)
    /\ IF fault
       THEN /\ last' = Caught("createEvent", Key(args), NoObs, DbFault, {})
            /\ UNCHANGED calls
       ELSE IF ~OrganizerFound(userId)
       THEN /\ last' = Caught("createEvent", Key(args), NoObs,
                              NewError("Organizer not found"), {})
            /\ UNCHANGED calls
       ELSE /\ calls' = [calls EXCEPT ![c] =
                  [op |-> "createEvent", pc |-> "create", args |-> args]]
            /\ last' = NoCall
    /\ UNCHANGED dbvars

\* createEvent, the write: Event.create({ ...event, category, organizer }),
\* revalidatePath(path)
createEventCreate(c, fault) ==
    LET call == calls[c]
        e == nextId.event IN
    /\ call.op = "createEvent" /\ call.pc = "create"
    /\ calls' = [calls EXCEPT ![c] = Idle]
    /\ IF fault
       THEN /\ last' = Caught("createEvent", Key(call.args), NoObs, DbFault, {})
            /\ UNCHANGED <<events, nextId>>
       ELSE /\ events' = Insert(events, e,
                  [title |-> call.args.event.title, category |-> call.args.event.categoryId,
                   organizer |-> call.args.userId, createdAt |-> now])
            /\ nextId' = [nextId EXCEPT !.event = @ + 1]
            /\ last' = Returned("createEvent", Key(call.args), NoObs, Doc("events", e),
                                {call.args.path})
    /\ UNCHANGED <<users, categories, orders, now>>

\* getEventById(eventId): populateEvent(Event.findById(eventId))
getEventById(eventId, fault) ==
    LET args == [eventId |-> eventId] IN
    /\ last' = IF fault THEN Caught("getEventById", args, NoObs, DbFault, {})
               ELSE IF ~Exists(events, eventId)
               THEN Caught("getEventById", args, NoObs, NewError("Event not found"), {})
               ELSE Returned("getEventById", args, NoObs, Doc("events", eventId), {})
    /\ UNCHANGED <<dbvars, calls>>

deleteEventRevalidateAlways(eventId, path, fault) ==
    LET args == [eventId |-> eventId, path |-> path] IN
    /\ IF fault
       THEN /\ last' = Caught("deleteEvent", args, [deletedEvent |-> Unset], DbFault, {})
            /\ UNCHANGED events
       ELSE /\ events' = Remove(events, eventId)
            /\ last' = Returned("deleteEvent", args,
                                [deletedEvent |-> IF Exists(events, eventId)
                                                  THEN eventId ELSE BogusId],
                                Undefined, {path})
    /\ UNCHANGED <<users, categories, orders, nextId, now, calls>>

\* deleteEvent({ eventId, path }): Event.findByIdAndDelete(eventId)
deleteEvent(eventId, path, fault) ==
    LET args == [eventId |-> eventId, path |-> path] IN
    /\ IF fault
       THEN /\ last' = Caught("deleteEvent", args, [deletedEvent |-> Unset], DbFault, {})
            /\ UNCHANGED events
       ELSE /\ events' = Remove(events, eventId)
            /\ last' = Returned("deleteEvent", args,
                                [deletedEvent |-> IF Exists(events, eventId)
                                                  THEN eventId ELSE BogusId],
                                Undefined,
                                IF Exists(events, eventId) THEN {path} ELSE {})
    /\ UNCHANGED <<users, categories, orders, nextId, now, calls>>

AnyoneMayUpdate(event, userId) == Exists(events, event._id)

\* the guard of updateEvent: the event exists and userId is its organizer
\* (organizer.toHexString() of an event without organizer throws as well)
MayUpdate(event, userId) ==
    /\ Exists(events, event._id)
    /\ events[event._id].organizer # Unset
    /\ events[event._id].organizer = userId

\* updateEvent, up to the check: Event.findById(event._id)
updateEventFind(c, userId, event, path, fault) ==
    LET args == [userId |-> userId, event |-> event, path |-> path] IN
    /\ FreeSlot(c)
    /\ IF fault
       THEN /\ last' = Caught("updateEvent", Key(args), NoObs, DbFault, {})
            /\ UNCHANGED calls
       ELSE IF ~MayUpdate(event, userId)
       THEN /\ last' = Caught("updateEvent", Key(args), NoObs,
                              NewError("Unauthorized or event not found"), {})
            /\ UNCHANGED calls
       ELSE /\ calls' = [calls EXCEPT ![c] =
                  [op |-> "updateEvent", pc |-> "update", args |-> args]]
            /\ last' = NoCall
    /\ UNCHANGED dbvars

\* updateEvent, the write: Event.findByIdAndUpdate(event._id,
\* { ...event, category: event.categoryId }, { new: true }), revalidatePath(path)
updateEventUpdate(c, fault) ==
    LET call == calls[c]
        event == call.args.event IN
    /\ call.op = "updateEvent" /\ call.pc = "update"
    /\ calls' = [calls EXCEPT ![c] = Idle]
    /\ IF fault
       THEN /\ last' = Caught("updateEvent", Key(call.args), NoObs, DbFault, {})
            /\ UNCHANGED events
       ELSE /\ events' = IF Exists(events, event._id)
                         THEN [events EXCEPT ![event._id].title = event.title,
                                             ![event._id].category = event.categoryId]
                         ELSE events
            /\ last' = Returned("updateEvent", Key(call.args), NoObs,
                                IF Exists(events, event._id)
                                THEN Doc("events", event._id) ELSE Null,
                                {call.args.path})
    /\ UNCHANGED <<users, categories, orders, nextId, now>>

\* default page sizes
GetAllEventsLimit == 6
GetRelatedEventsLimit == 3
GetRelatedEventsPage == 1
GetEventsByUserLimit == 6
GetOrdersByUserLimit == 3

\* getCategoryByName(name): Category.findOne({ name: { $regex: name, $options: 'i' } }),
\* the first category (in insertion order) whose name matches, or none
getCategoryByName(name) ==
    LET m == {k \in DOMAIN categories : RegexMatchI(name, categories[k].name)} IN
    IF m = {} THEN BogusId ELSE CHOOSE k \in m : \A j \in m : k <= j

\* a paged query, first half: find(conditions).sort().skip().limit()
pageFind(c, op, coll, matching, fault) ==
    LET call == calls[c] IN
    /\ call.op = op /\ call.pc = "find"
    /\ IF fault
       THEN /\ last' = Caught(op, call.args, call.obs, DbFault, {})
            /\ calls' = [calls EXCEPT ![c] = Idle]
       ELSE /\ \E s \in SortCreatedAtDesc(coll, matching) :
                 calls' = [calls EXCEPT ![c].pc = "count",
                             ![c].data = SkipLimit(s, call.skipAmount, call.obs.limit)]
            /\ last' = NoCall
    /\ UNCHANGED dbvars

\* a paged query, second half: countDocuments(conditions) and the result
pageCount(c, op, matching, fault) ==
    LET call == calls[c] IN
    /\ call.op = op /\ call.pc = "count"
    /\ calls' = [calls EXCEPT ![c] = Idle]
    /\ last' = IF fault THEN Caught(op, call.args, call.obs, DbFault, {})
               ELSE Returned(op, call.args, call.obs,
                             Page(call.data, MathCeil(Cardinality(matching), call.obs.limit)),
                             {})
    /\ UNCHANGED dbvars

PagedCall(op, args, conditions, limit, page) ==
    [op |-> op, pc |-> "find", args |-> args,
     obs |-> [conditions |-> conditions, limit |-> limit],
     skipAmount |-> (page - 1) * limit, data |-> << >>]

\* getAllEvents({ query, limit = 6, page, category }), up to the conditions
getAllEventsStart(c, query, limit, page, category, fault) ==
    LET args == [query |-> query, limit |-> limit, page |-> page, category |-> category]
        titleCondition == query
        categoryCondition == IF category # << >> THEN getCategoryByName(category) ELSE BogusId
        conditions == EventConditions(titleCondition,
                          IF categoryCondition # BogusId THEN categoryCondition ELSE Unset,
                          Unset, Unset) IN
    /\ FreeSlot(c)
    /\ IF fault
       THEN /\ last' = Caught("getAllEvents", args, NoObs, DbFault, {})
            /\ UNCHANGED calls
       ELSE /\ calls' = [calls EXCEPT ![c] =
                  PagedCall("getAllEvents", args, conditions,
                            Default(limit, GetAllEventsLimit), page)]
            /\ last' = NoCall
    /\ UNCHANGED dbvars

getAllEventsFind(c, fault) ==
    pageFind(c, "getAllEvents", events, MatchingEvents(calls[c].obs.conditions), fault)

getAllEventsCount(c, fault) ==
    pageCount(c, "getAllEvents", MatchingEvents(calls[c].obs.conditions), fault)

\* getRelatedEventsByCategory({ categoryId, eventId, limit = 3, page = 1 })
getRelatedEventsByCategoryStart(c, categoryId, eventId, limit, page, fault) ==
    LET args == [categoryId |-> categoryId, eventId |-> eventId, limit |-> limit,
                 page |-> page]
        conditions == EventConditions(<< >>, categoryId, Unset, eventId) IN
    /\ FreeSlot(c)
    /\ IF fault
       THEN /\ last' = Caught("getRelatedEventsByCategory", args, NoObs, DbFault, {})
            /\ UNCHANGED calls
       ELSE /\ calls' = [calls EXCEPT ![c] =
                  PagedCall("getRelatedEventsByCategory", args, conditions,
                            Default(limit, GetRelatedEventsLimit),
                            Default(page, GetRelatedEventsPage))]
            /\ last' = NoCall
    /\ UNCHANGED dbvars

getRelatedEventsByCategoryFind(c, fault) ==
    pageFind(c, "getRelatedEventsByCategory", events,
             MatchingEvents(calls[c].obs.conditions), fault)

getRelatedEventsByCategoryCount(c, fault) ==
    pageCount(c, "getRelatedEventsByCategory", MatchingEvents(calls[c].obs.conditions), fault)

\* getEventsByUser({ userId, limit = 6, page })
getEventsByUserStart(c, userId, limit, page, fault) ==
    LET args == [userId |-> userId, limit |-> limit, page |-> page]
        conditions == EventConditions(<< >>, Unset, userId, Unset) IN
    /\ FreeSlot(c)
    /\ IF fault
       THEN /\ last' = Caught("getEventsByUser", args, NoObs, DbFault, {})
            /\ UNCHANGED calls
       ELSE /\ calls' = [calls EXCEPT ![c] =
                  PagedCall("getEventsByUser", args, conditions,
                            Default(limit, GetEventsByUserLimit), page)]
            /\ last' = NoCall
    /\ UNCHANGED dbvars

getEventsByUserFind(c, fault) ==
    pageFind(c, "getEventsByUser", events, MatchingEvents(calls[c].obs.conditions), fault)

getEventsByUserCount(c, fault) ==
    pageCount(c, "getEventsByUser", MatchingEvents(calls[c].obs.conditions), fault)

(* ---------------- actions/category.actions.ts ------------------------- *)
\* createCategory({ categoryName }): Category.create({ name: categoryName })
createCategory(categoryName, fault) ==
    LET args == [categoryName |-> categoryName] IN
    /\ IF fault
       THEN /\ last' = Caught("createCategory", args, NoObs, DbFault, {})
            /\ UNCHANGED <<categories, nextId>>
       ELSE /\ categories' = Insert(categories, nextId.category, [name |-> categoryName])
            /\ nextId' = [nextId EXCEPT !.category = @ + 1]
            /\ last' = Returned("createCategory", args, NoObs,
                                Doc("categories", nextId.category), {})
    /\ UNCHANGED <<users, events, orders, now, calls>>

\* getAllCategories(): Category.find()
getAllCategories(fault) ==
    /\ last' = IF fault THEN Caught("getAllCategories", NoObs, NoObs, DbFault, {})
               ELSE Returned("getAllCategories", NoObs, NoObs,
                             Docs("categories", DOMAIN categories), {})
    /\ UNCHANGED <<dbvars, calls>>

(* ------------------- order actions (unnamed/part_001) ------------------ *)
StripeErrors ==
    {[type |-> "object", name |-> "StripeCardError", message |-> "declined"],
     [type |-> "object", name |-> "StripeConnectionError", message |-> "network"]}

\* redirect(url) never returns: it throws the framework's redirect signal
NextRedirect == [type |-> "object", name |-> "NEXT_REDIRECT", message |-> "session.url"]

RethrowWrapped(error) == handleError(error).thrown

\* catch (error) { throw error }
Rethrow(error) == error

\* Number(s) of a string of decimal digits; "" is 0, anything else NaN
Digit(ch) ==
    CASE ch = "0" -> 0 [] ch = "1" -> 1 [] ch = "2" -> 2 [] ch = "3" -> 3 [] ch = "4" -> 4
      [] ch = "5" -> 5 [] ch = "6" -> 6 [] ch = "7" -> 7 [] ch = "8" -> 8 [] ch = "9" -> 9
      [] OTHER -> -1

NaN == [nan |-> TRUE, n |-> 0]
Num(n) == [nan |-> FALSE, n |-> n]

RECURSIVE Number(_)
Number(s) ==
    IF s = <<>> THEN Num(0)
    ELSE LET front == Number(SubSeq(s, 1, Len(s) - 1))
             d == Digit(s[Len(s)]) IN
         IF front.nan \/ d < 0 THEN NaN ELSE Num(front.n * 10 + d)

\* x * 100; NaN * 100 is NaN
Times100(x) == IF x.nan THEN NaN ELSE Num(x.n * 100)

\* checkoutOrder(order), up to the await: price, then one call of
\* stripe.checkout.sessions.create(...), which is left pending
checkoutOrderCreate(c, order) ==
    LET price == IF order.isFree THEN Num(0) ELSE Times100(Number(order.price)) IN
    /\ FreeSlot(c)
    /\ calls' = [calls EXCEPT ![c] =
          [op |-> "checkoutOrder", pc |-> "create", args |-> order,
           obs |-> [sessionsCreated |-> 1, unit_amount |-> price,
                    metadata |-> [eventId |-> order.eventId, buyerId |-> order.buyerId]]]]
    /\ last' = NoCall
    /\ UNCHANGED dbvars

\* the pending session creation settles: it rejects with `raised`, or it
\* resolves (raised = NoError) and redirect(session.url!) throws; either
\* way the catch block has the error and throws it
checkoutOrderSettle(c, raised) ==
    LET error == IF raised # NoError THEN raised ELSE NextRedirect IN
    /\ calls[c].op = "checkoutOrder" /\ calls[c].pc = "create"
    /\ last' = [op |-> "checkoutOrder", args |-> calls[c].args,
                obs |-> [raised |-> error, redirected |-> raised = NoError,
                         sessionsCreated |-> calls[c].obs.sessionsCreated,
                         unit_amount |-> calls[c].obs.unit_amount,
                         metadata |-> calls[c].obs.metadata],
                outcome |-> "threw", value |-> Undefined, failed |-> TRUE, logs |-> 0,
                revalidated |-> {}, thrown |-> Rethrow(error)]
    /\ calls' = [calls EXCEPT ![c] = Idle]
    /\ UNCHANGED dbvars

\* createOrder(order): Order.create({ ...order, event: order.eventId, buyer: order.buyerId })
createOrder(order, fault) ==
    /\ IF fault
       THEN /\ last' = Caught("createOrder", order, NoObs, DbFault, {})
            /\ UNCHANGED <<orders, nextId>>
       ELSE /\ orders' = Insert(orders, nextId.order,
                  [event |-> order.eventId, buyer |-> order.buyerId, createdAt |-> now])
            /\ nextId' = [nextId EXCEPT !.order = @ + 1]
            /\ last' = Returned("createOrder", order, NoObs, Doc("orders", nextId.order), {})
    /\ UNCHANGED <<users, events, categories, now, calls>>

\* the name the aggregation matches: $concat of the buyer's names
BuyerName(u) == users[u].firstName \o <<" ">> \o users[u].lastName

\* getOrdersByEvent({ searchString, eventId }): the aggregation keeps an order
\* when its buyer and its event exist ($lookup, $unwind), the event is
\* eventId and the buyer's name matches searchString
getOrdersByEvent(searchString, eventId, fault) ==
    LET args == [searchString |-> searchString, eventId |-> eventId]
        found == {o \in DOMAIN orders :
                     /\ Exists(users, orders[o].buyer)
                     /\ Exists(events, orders[o].event)
                     /\ orders[o].event = eventId
                     /\ RegexMatchI(searchString, BuyerName(orders[o].buyer))} IN
    /\ last' = IF fault THEN Caught("getOrdersByEvent", args, NoObs, DbFault, {})
               ELSE IF eventId = Unset
               THEN Caught("getOrdersByEvent", args, NoObs, NewError("Event ID is required"), {})
               ELSE Returned("getOrdersByEvent", args, NoObs, Docs("orders", found), {})
    /\ UNCHANGED <<dbvars, calls>>

\* getOrdersByUser({ userId, limit = 3, page })
getOrdersByUserStart(c, userId, limit, page, fault) ==
    LET args == [userId |-> userId, limit |-> limit, page |-> page]
        conditions == [buyer |-> userId] IN
    /\ FreeSlot(c)
    /\ IF fault
       THEN /\ last' = Caught("getOrdersByUser", args, NoObs, DbFault, {})
            /\ UNCHANGED calls
       ELSE /\ calls' = [calls EXCEPT ![c] =
                  PagedCall("getOrdersByUser", args, conditions,
                            Default(limit, GetOrdersByUserLimit), page)]
            /\ last' = NoCall
    /\ UNCHANGED dbvars

getOrdersByUserFind(c, fault) ==
    pageFind(c, "getOrdersByUser", orders, MatchingOrders(calls[c].obs.conditions), fault)

getOrdersByUserCount(c, fault) ==
    pageCount(c, "getOrdersByUser", MatchingOrders(calls[c].obs.conditions), fault)

\* time passes between two requests (Date.now of createdAt)
Tick ==
    /\ now < MaxTime
    /\ now' = now + 1
    /\ last' = NoCall
    /\ UNCHANGED <<users, events, categories, orders, nextId, calls>>

(* ------------------- lib/utils.ts: URL query helpers ------------------- *)
\* A string is a sequence of characters.  In a raw query string an escape
\* such as %26 is one token; a decoded key or value holds the character.
Str(s) == [kind |-> "string", s |-> s]

\* s.indexOf(ch) + 1
IndexOf(s, ch) ==
    IF \E i \in 1..Len(s) : s[i] = ch
    THEN CHOOSE i \in 1..Len(s) : s[i] = ch /\ \A j \in 1..(i - 1) : s[j] # ch
    ELSE 0

\* s.split(sep)
RECURSIVE Split(_, _)
Split(s, sep) ==
    LET i == IndexOf(s, sep) IN
    IF i = 0 THEN <<s>>
    ELSE <<SubSeq(s, 1, i - 1)>> \o Split(SubSeq(s, i + 1, Len(s)), sep)

\* parts.join(sep)
RECURSIVE Join(_, _)
Join(parts, sep) ==
    IF parts = << >> THEN << >>
    ELSE IF Len(parts) = 1 THEN parts[1]
    ELSE parts[1] \o <<sep>> \o Join(Tail(parts), sep)

\* query-string decodes a key or value: '+' is a space, then decodeURIComponent
DecodeToken(tk) ==
    CASE tk = "+" -> " " [] tk = "%20" -> " " [] tk = "%26" -> "&"
      [] tk = "%3D" -> "=" [] tk = "%2B" -> "+" [] tk = "%3F" -> "?" [] OTHER -> tk

Decode(s) == [i \in 1..Len(s) |-> DecodeToken(s[i])]

\* strict-uri-encode of a key or value
EncodeChar(ch) ==
    CASE ch = " " -> "%20" [] ch = "&" -> "%26" [] ch = "=" -> "%3D"
      [] ch = "+" -> "%2B" [] ch = "?" -> "%3F" [] OTHER -> ch

Encode(s) == [i \in 1..Len(s) |-> EncodeChar(s[i])]

\* the parsed query: an object from decoded keys to the values of the key
\* in their order; a key given once has one value, a key given without '='
\* has the value null
EmptyQuery == [k \in {} |-> << >>]

AddValue(object, key, value) ==
    IF key \in DOMAIN object THEN [object EXCEPT ![key] = Append(@, value)]
    ELSE object @@ (key :> <<value>>)

RECURSIVE ParseParameters(_, _)
ParseParameters(parameters, object) ==
    IF parameters = << >> THEN object
    ELSE LET parameter == Head(parameters)
             i == IndexOf(parameter, "=")
             key == IF i = 0 THEN parameter ELSE SubSeq(parameter, 1, i - 1)
             value == IF i = 0 THEN Null
                      ELSE Str(Decode(SubSeq(parameter, i + 1, Len(parameter)))) IN
         ParseParameters(Tail(parameters),
                         IF parameter = << >> THEN object
                         ELSE AddValue(object, Decode(key), value))

\* qs.parse(query): one leading '?', '#' or '&' is dropped, the rest is
\* split on '&', empty parameters are skipped
parse(query) ==
    LET q == IF query # << >> /\ query[1] \in {"?", "#", "&"} THEN Tail(query) ELSE query IN
    IF q = << >> THEN EmptyQuery ELSE ParseParameters(Split(q, "&"), EmptyQuery)

\* the UTF-16 code unit of a character
CharCode(ch) ==
    CASE ch = " " -> 32 [] ch = "&" -> 38 [] ch = "+" -> 43 [] ch = "1" -> 49
      [] ch = "2" -> 50 [] ch = "=" -> 61 [] ch = "?" -> 63 [] ch = "a" -> 97
      [] ch = "e" -> 101 [] ch = "g" -> 103 [] ch = "o" -> 111 [] ch = "p" -> 112
      [] OTHER -> 0

\* s < t as Array.prototype.sort compares strings
RECURSIVE Less(_, _)
Less(s, t) ==
    IF t = << >> THEN FALSE
    ELSE IF s = << >> THEN TRUE
    ELSE IF s[1] = t[1] THEN Less(Tail(s), Tail(t))
    ELSE CharCode(s[1]) < CharCode(t[1])

\* Object.keys(object).sort()
SortKeys(keys) ==
    CHOOSE s \in [1..Cardinality(keys) -> keys] :
        \A i, j \in 1..Cardinality(keys) : i < j => Less(s[i], s[j])

\* the parameters one key contributes: none for a skipped null, the bare
\* key for a null, key=value otherwise
RECURSIVE KeyParts(_, _, _)
KeyParts(key, values, options) ==
    IF values = << >> THEN << >>
    ELSE LET value == Head(values)
             rest == KeyParts(key, Tail(values), options) IN
         IF value = Null
         THEN IF options.skipNull THEN rest ELSE <<Encode(key)>> \o rest
         ELSE <<Encode(key) \o <<"=">> \o Encode(value.s)>> \o rest

\* qs.stringify(object, options): keys sorted, empty results dropped
stringify(object, options) ==
    LET kept == {k \in DOMAIN object : ~(options.skipNull /\ object[k] = <<Null>>)}
        keys == SortKeys(kept)
        strings == [i \in 1..Len(keys) |-> Join(KeyParts(keys[i], object[keys[i]], options), "&")] IN
    Join(SelectSeq(strings, LAMBDA x : Len(x) > 0), "&")

\* qs.stringifyUrl({ url, query }, options), for a url without query or hash
stringifyUrl(url, query, options) ==
    LET queryString == stringify(query, options) IN
    IF queryString = << >> THEN url ELSE url \o <<"?">> \o queryString

\* the query part of a URL: what follows the first '?'
QueryPart(url) ==
    LET i == IndexOf(url, "?") IN
    IF i = 0 THEN << >> ELSE SubSeq(url, i + 1, Len(url))

AppendKey(currentUrl, key, value) == AddValue(currentUrl, key, Str(value))

\* currentUrl[key] = value
SetKey(currentUrl, key, value) ==
    IF key \in DOMAIN currentUrl THEN [currentUrl EXCEPT ![key] = <<Str(value)>>]
    ELSE currentUrl @@ (key :> <<Str(value)>>)

\* formUrlQuery({ params, key, value }) on a page at `pathname`
formUrlQuery(params, key, value, pathname) ==
    stringifyUrl(pathname, SetKey(parse(params), key, value), [skipNull |-> TRUE])

DeleteFirstKey(currentUrl, keysToRemove) ==
    [k \in DOMAIN currentUrl \ {keysToRemove[i] : i \in {1} \cap DOMAIN keysToRemove}
        |-> currentUrl[k]]

\* keysToRemove.forEach(key => { delete currentUrl[key] })
DeleteKeys(currentUrl, keysToRemove) ==
    [k \in DOMAIN currentUrl \ {keysToRemove[i] : i \in DOMAIN keysToRemove}
        |-> currentUrl[k]]

\* removeKeysFromQuery({ params, keysToRemove }) on a page at `pathname`
removeKeysFromQuery(params, keysToRemove, pathname) ==
    stringifyUrl(pathname, DeleteKeys(parse(params), keysToRemove), [skipNull |-> TRUE])

\* a call of formUrlQuery about to be made; `previous` is the URL the
\* params were taken from, if they were taken from a result
UrlCall(op, args, round, previous) ==
    [op |-> op, pc |-> "call", args |-> args,
     obs |-> [round |-> round, previous |-> previous]]

\* the call runs; after the first round the query part of the result is fed
\* back in with the same key and value
formUrlQueryCall(c) ==
    LET call == calls[c]
        url == formUrlQuery(call.args.params, call.args.key, call.args.value,
                            call.args.pathname) IN
    /\ call.op = "formUrlQuery"
    /\ last' = Returned("formUrlQuery", call.args, call.obs, url, {})
    /\ calls' = [calls EXCEPT ![c] =
          IF call.obs.round = 1
          THEN UrlCall("formUrlQuery", [call.args EXCEPT !.params = QueryPart(url)], 2, url)
          ELSE Idle]
    /\ UNCHANGED dbvars

removeKeysFromQueryCall(c) ==
    LET call == calls[c]
        url == removeKeysFromQuery(call.args.params, call.args.keysToRemove,
                                   call.args.pathname) IN
    /\ call.op = "removeKeysFromQuery"
    /\ last' = Returned("removeKeysFromQuery", call.args, call.obs, url, {})
    /\ calls' = [calls EXCEPT ![c] =
          IF call.obs.round = 1
          THEN UrlCall("removeKeysFromQuery", [call.args EXCEPT !.params = QueryPart(url)],
                       2, url)
          ELSE Idle]
    /\ UNCHANGED dbvars

(* ---------------- Pagination (unnamed/part_000) ------------------------ *)
\* n.toString() for an integer n
RECURSIVE toString(_)
toString(n) ==
    IF n < 0 THEN <<"-">> \o toString(0 - n)
    ELSE IF n < 10 THEN <<CHOOSE ch \in {"0", "1", "2", "3", "4", "5", "6", "7", "8", "9"} :
                              Digit(ch) = n>>
    ELSE toString(n \div 10) \o toString(n % 10)

\* useSearchParams(): the name/value pairs of the query of the browser's
\* URL, in their order; a parameter without '=' has the value ""
RECURSIVE SearchParamsPairs(_)
SearchParamsPairs(parameters) ==
    IF parameters = << >> THEN << >>
    ELSE LET parameter == Head(parameters)
             i == IndexOf(parameter, "=")
             name == IF i = 0 THEN parameter ELSE SubSeq(parameter, 1, i - 1)
             value == IF i = 0 THEN << >> ELSE SubSeq(parameter, i + 1, Len(parameter)) IN
         (IF parameter = << >> THEN << >>
          ELSE <<[name |-> Decode(name), value |-> Decode(value)]>>)
         \o SearchParamsPairs(Tail(parameters))

useSearchParams(search) ==
    LET q == IF search # << >> /\ search[1] = "?" THEN Tail(search) ELSE search IN
    IF q = << >> THEN << >> ELSE SearchParamsPairs(Split(q, "&"))

\* the form-urlencoded serialisation of a name or value: a space is '+'
FormEncodeChar(ch) == IF ch = " " THEN "+" ELSE EncodeChar(ch)

FormEncode(s) == [i \in 1..Len(s) |-> FormEncodeChar(s[i])]

\* searchParams.toString()
SearchParamsToString(pairs) ==
    Join([i \in 1..Len(pairs) |->
             FormEncode(pairs[i].name) \o <<"=">> \o FormEncode(pairs[i].value)], "&")

DisabledPastEnd(btnType, page, totalPages) ==
    IF btnType = "prev" THEN Number(page).n <= 1 ELSE Number(page).n > totalPages

\* disabled={Number(page) <= 1}, disabled={Number(page) >= totalPages}
Disabled(btnType, page, totalPages) ==
    IF btnType = "prev" THEN Number(page).n <= 1 ELSE Number(page).n >= totalPages

\* urlParamName || 'page'
UrlParamName(urlParamName) ==
    IF urlParamName = << >> THEN <<"p", "a", "g", "e">> ELSE urlParamName

\* the Pagination control as rendered for its props on a page whose URL has
\* the query `search`
Pagination(page, totalPages, urlParamName, search) ==
    [op |-> "Pagination", pc |-> "rendered",
     args |-> [page |-> page, totalPages |-> totalPages, urlParamName |-> urlParamName],
     obs |-> [search |-> search,
              disabled |-> [prev |-> Disabled("prev", page, totalPages),
                            next |-> Disabled("next", page, totalPages)]]]

\* the page the parent passes after a navigation: the value of the page
\* parameter of the new URL
PageProp(url, key) ==
    LET pairs == useSearchParams(QueryPart(url))
        i == CHOOSE i \in DOMAIN pairs : pairs[i].name = key IN
    pairs[i].value

\* onClick(btnType) of a button that is not disabled: formUrlQuery sets
\* the page parameter, router.push(newUrl), and the control is rendered
\* again for the new URL
onClick(c, btnType, pathname) ==
    LET control == calls[c]
        page == control.args.page
        pageValue == IF btnType = "next" THEN Number(page).n + 1 ELSE Number(page).n - 1
        key == UrlParamName(control.args.urlParamName)
        newUrl == formUrlQuery(SearchParamsToString(useSearchParams(control.obs.search)),
                               key, toString(pageValue), pathname) IN
    /\ control.op = "Pagination"
    /\ ~control.obs.disabled[btnType]
    /\ calls' = [calls EXCEPT ![c] =
          Pagination(PageProp(newUrl, key), control.args.totalPages,
                     control.args.urlParamName, QueryPart(newUrl))]
    /\ last' = Returned("onClick", [btnType |-> btnType], [before |-> control], newUrl, {})
    /\ UNCHANGED dbvars

(* --------------------------- specifications --------------------------- *)
Faults == BOOLEAN
Paths == {"/profile"}

\* ids a caller can know: those handed out so far, and one that never was
KnownUsers == 0..(nextId.user - 1)
KnownEvents == 0..(nextId.event - 1)
KnownCategories == 0..(nextId.category - 1)
KnownOrders == 0..(nextId.order - 1)

\* the identity provider gives every new user a clerkId of its own
ClerkIdFor(n) == 100 + n
KnownClerkIds == {ClerkIdFor(n) : n \in KnownUsers}

NewUser == [clerkId |-> ClerkIdFor(nextId.user), firstName |-> <<"a">>, lastName |-> <<"b">>,
            events |-> {}, orders |-> {}]

\* updates of a user's back-references
ListUpdates ==
    {[events |-> x] : x \in SUBSET (KnownEvents \ {BogusId})}
    \cup {[orders |-> x] : x \in SUBSET (KnownOrders \ {BogusId})}

\* a new event carries no _id of its own
EventInputs(titles) == [_id : {Unset}, title : titles, categoryId : KnownCategories]
EventUpdates(titles) == [_id : KnownEvents, title : titles, categoryId : KnownCategories]

\* the slot a specification with one invocation in flight uses
First == {1}

(* Spec: every data-layer handler, each awaited operation able to fail, one
   multi-step invocation in flight at a time. *)
Next ==
    \/ \E f \in Faults : nextId.user <= MaxUsers /\ createUser(NewUser, f)
    \/ \E u \in KnownUsers, f \in Faults : getUserById(u, f)
    \/ \E k \in KnownClerkIds, f \in Faults : updateUser(k, [firstName |-> <<"A">>], f)
    \/ \E c \in First, k \in KnownClerkIds, f \in Faults : deleteUserFind(c, k, f)
    \/ \E c \in First, f \in Faults, b \in BOOLEAN : deleteUserUnlinkEvents(c, f, b)
    \/ \E c \in First, f \in Faults : deleteUserUnlinkOrders(c, f)
    \/ \E c \in First, f \in Faults : deleteUserDelete(c, f)
    \/ \E f \in Faults : nextId.category <= MaxCategories /\ createCategory(<<"a">>, f)
    \/ \E f \in Faults : getAllCategories(f)
    \/ \E c \in First, u \in KnownUsers, e \in EventInputs({<<"a">>}), p \in Paths, f \in Faults :
          /\ nextId.event + InFlight("createEvent") <= MaxEvents
          /\ createEventFind(c, u, e, p, f)
    \/ \E c \in First, f \in Faults : createEventCreate(c, f)
    \/ \E e \in KnownEvents, f \in Faults : getEventById(e, f)
    \/ \E c \in First, u \in KnownUsers, e \in EventUpdates({<<"B">>}), p \in Paths, f \in Faults :
          updateEventFind(c, u, e, p, f)
    \/ \E c \in First, f \in Faults : updateEventUpdate(c, f)
    \/ \E e \in KnownEvents, p \in Paths, f \in Faults : deleteEvent(e, p, f)
    \/ \E c \in First, k \in {<<"A">>}, f \in Faults :
          getAllEventsStart(c, << >>, Unset, 1, k, f)
    \/ \E c \in First, f \in Faults : getAllEventsFind(c, f)
    \/ \E c \in First, f \in Faults : getAllEventsCount(c, f)
    \/ \E c \in First, k \in KnownCategories, e \in KnownEvents, f \in Faults :
          getRelatedEventsByCategoryStart(c, k, e, Unset, Unset, f)
    \/ \E c \in First, f \in Faults : getRelatedEventsByCategoryFind(c, f)
    \/ \E c \in First, f \in Faults : getRelatedEventsByCategoryCount(c, f)
    \/ \E c \in First, u \in KnownUsers, f \in Faults : getEventsByUserStart(c, u, Unset, 1, f)
    \/ \E c \in First, f \in Faults : getEventsByUserFind(c, f)
    \/ \E c \in First, f \in Faults : getEventsByUserCount(c, f)
    \/ \E e \in KnownEvents, u \in KnownUsers, f \in Faults :
          /\ nextId.order <= MaxOrders
          /\ createOrder([eventId |-> e, buyerId |-> u], f)
    \/ \E s \in {<< >>, <<"A">>}, e \in KnownEvents \cup {Unset}, f \in Faults :
          getOrdersByEvent(s, e, f)
    \/ \E c \in First, u \in KnownUsers, f \in Faults : getOrdersByUserStart(c, u, Unset, 1, f)
    \/ \E c \in First, f \in Faults : getOrdersByUserFind(c, f)
    \/ \E c \in First, f \in Faults : getOrdersByUserCount(c, f)

Spec == Init /\ [][Next]_vars

(* SpecWrites: the handlers that write, interleaved with one another, with
   users that carry back-references. *)
NextWrites ==
    \/ nextId.user <= MaxUsers /\ createUser(NewUser, FALSE)
    \/ \E k \in KnownClerkIds, x \in ListUpdates : updateUser(k, x, FALSE)
    \/ \E c \in Calls, k \in KnownClerkIds, f \in Faults : deleteUserFind(c, k, f)
    \/ \E c \in Calls, f \in Faults, b \in BOOLEAN : deleteUserUnlinkEvents(c, f, b)
    \/ \E c \in Calls, f \in Faults : deleteUserUnlinkOrders(c, f)
    \/ \E c \in Calls, f \in Faults : deleteUserDelete(c, f)
    \/ nextId.category <= MaxCategories /\ createCategory(<<"a">>, FALSE)
    \/ \E c \in Calls, u \in KnownUsers, e \in EventInputs({<<"a">>}), p \in Paths :
          /\ nextId.event + InFlight("createEvent") <= MaxEvents
          /\ createEventFind(c, u, e, p, FALSE)
    \/ \E c \in Calls : createEventCreate(c, FALSE)
    \/ \E c \in Calls, u \in KnownUsers, e \in EventUpdates({<<"B">>}), p \in Paths :
          updateEventFind(c, u, e, p, FALSE)
    \/ \E c \in Calls : updateEventUpdate(c, FALSE)
    \/ \E e \in KnownEvents, p \in Paths : deleteEvent(e, p, FALSE)
    \/ \E e \in KnownEvents, u \in KnownUsers :
          /\ nextId.order <= MaxOrders
          /\ createOrder([eventId |-> e, buyerId |-> u], FALSE)

SpecWrites == Init /\ [][NextWrites]_vars

(* SpecPages: the paged reads over a store of several events and orders,
   with explicit and default limits, while events and orders are created. *)
Limits == {Unset, 1, 2}
Pages == {1, 2}

NextPages ==
    \/ nextId.user <= MaxUsers /\ createUser(NewUser, FALSE)
    \/ nextId.category <= MaxCategories /\ createCategory(<<"a">>, FALSE)
    \/ \E c \in First, u \in KnownUsers \ {BogusId}, e \in EventInputs({<<"a">>}),
          p \in Paths :
          /\ nextId.event + InFlight("createEvent") <= MaxPageDocs
          /\ createEventFind(c, u, e, p, FALSE)
    \/ \E c \in First : createEventCreate(c, FALSE)
    \/ \E e \in KnownEvents \ {BogusId}, u \in KnownUsers \ {BogusId} :
          /\ nextId.order <= MaxOrders
          /\ createOrder([eventId |-> e, buyerId |-> u], FALSE)
    \/ Tick
    \/ \E c \in First, q \in {<< >>, <<"B">>}, l \in Limits, p \in Pages,
          k \in {<< >>, <<"A">>} :
          getAllEventsStart(c, q, l, p, k, FALSE)
    \/ \E c \in First : getAllEventsFind(c, FALSE)
    \/ \E c \in First : getAllEventsCount(c, FALSE)
    \/ \E c \in First, k \in KnownCategories, e \in KnownEvents, l \in Limits,
          p \in Pages \cup {Unset} :
          getRelatedEventsByCategoryStart(c, k, e, l, p, FALSE)
    \/ \E c \in First : getRelatedEventsByCategoryFind(c, FALSE)
    \/ \E c \in First : getRelatedEventsByCategoryCount(c, FALSE)
    \/ \E c \in First, u \in KnownUsers, l \in Limits, p \in Pages :
          getEventsByUserStart(c, u, l, p, FALSE)
    \/ \E c \in First : getEventsByUserFind(c, FALSE)
    \/ \E c \in First : getEventsByUserCount(c, FALSE)
    \/ \E c \in First, u \in KnownUsers, l \in Limits, p \in Pages :
          getOrdersByUserStart(c, u, l, p, FALSE)
    \/ \E c \in First : getOrdersByUserFind(c, FALSE)
    \/ \E c \in First : getOrdersByUserCount(c, FALSE)

SpecPages == Init /\ [][NextPages]_vars

\* orders a buyer can submit from an event page
CheckoutOrders ==
    [eventTitle : {<<"a">>}, eventId : {1}, buyerId : {1, 2},
     price : {<<>>, <<"2">>, <<"1", "0">>, <<"x">>}, isFree : BOOLEAN]

NextCheckout ==
    \/ \E c \in Calls, order \in CheckoutOrders : checkoutOrderCreate(c, order)
    \/ \E c \in Calls, raised \in StripeErrors \cup {NoError} : checkoutOrderSettle(c, raised)

SpecCheckout == Init /\ [][NextCheckout]_vars

(* SpecUrl: the URL helpers, each applied to a query string and then to the
   query part of its own result. *)
UrlKeys == {<<"a">>, <<"p">>}
RawValues == {<< >>, <<"1">>, <<"+">>, <<"%26">>}

\* one raw parameter: empty, a bare key, or key=value
RawParameters ==
    {<< >>} \cup UrlKeys \cup {k \o <<"=">> \o v : k \in UrlKeys, v \in RawValues}

\* the query strings of at most MaxParams parameters, with or without '?'
QueryStrings ==
    {prefix \o Join(ps, "&") :
        prefix \in {<< >>, <<"?">>},
        ps \in UNION {[1..n -> RawParameters] : n \in 0..MaxParams}}

Pathnames == {<<"/">>}
UrlValues == {<<"2">>, <<"&">>}
KeyLists == {<< >>, <<<<"a">>>>, <<<<"p">>>>, <<<<"a">>, <<"p">>>>}

UrlCalls ==
    {UrlCall("formUrlQuery", args, 1, << >>) :
        args \in [params : QueryStrings, key : UrlKeys, value : UrlValues,
                  pathname : Pathnames]}
    \cup {UrlCall("removeKeysFromQuery", args, 1, << >>) :
        args \in [params : QueryStrings, keysToRemove : KeyLists, pathname : Pathnames]}

InitUrl ==
    /\ users = << >>
    /\ events = << >>
    /\ categories = << >>
    /\ orders = << >>
    /\ nextId = [user |-> 1, event |-> 1, category |-> 1, order |-> 1]
    /\ now = 1
    /\ calls \in {[c \in Calls |-> IF c = 1 THEN call ELSE Idle] : call \in UrlCalls}
    /\ last = NoCall

NextUrl ==
    \/ \E c \in Calls : formUrlQueryCall(c)
    \/ \E c \in Calls : removeKeysFromQueryCall(c)

SpecUrl == InitUrl /\ [][NextUrl]_vars

(* SpecFilter: getAllEvents over events of several titles and categories,
   with category names that contain one another. *)
Names == {<<"a">>, <<"a", "b">>}
Searches == {<< >>, <<"A">>, <<"B">>}

NextFilter ==
    \/ nextId.user <= MaxUsers /\ createUser(NewUser, FALSE)
    \/ \E n \in Names : nextId.category <= MaxFilterDocs /\ createCategory(n, FALSE)
    \/ \E c \in First, u \in KnownUsers \ {BogusId}, e \in EventInputs(Names), p \in Paths :
          /\ nextId.event + InFlight("createEvent") <= MaxFilterDocs
          /\ createEventFind(c, u, e, p, FALSE)
    \/ \E c \in First : createEventCreate(c, FALSE)
    \/ \E c \in First, q \in Searches, k \in Searches :
          getAllEventsStart(c, q, Unset, 1, k, FALSE)
    \/ \E c \in First : getAllEventsFind(c, FALSE)
    \/ \E c \in First : getAllEventsCount(c, FALSE)

SpecFilter == Init /\ [][NextFilter]_vars

(* SpecSlices: the paged event reads, two at a time, over a store of events
   that no handler changes meanwhile. *)
SlicePages == {1, 2, 3}
SliceLimits == {1, 2}

\* the stores of one user and up to MaxPageDocs events of that user
InitSlices ==
    /\ users = (1 :> [clerkId |-> ClerkIdFor(1), firstName |-> <<"a">>, lastName |-> <<"b">>,
                      events |-> {}, orders |-> {}])
    /\ events \in UNION {[1..n -> [title : {<<"a">>}, category : {BogusId}, organizer : {1},
                                   createdAt : 1..MaxTime]] : n \in 0..MaxPageDocs}
    /\ categories = << >>
    /\ orders = << >>
    /\ nextId = [user |-> 2, event |-> Len(events) + 1, category |-> 1, order |-> 1]
    /\ now = MaxTime
    /\ calls = [c \in Calls |-> Idle]
    /\ last = NoCall

NextSlices ==
    \/ \E c \in Calls, l \in SliceLimits, p \in SlicePages :
          getAllEventsStart(c, << >>, l, p, << >>, FALSE)
    \/ \E c \in Calls : getAllEventsFind(c, FALSE)
    \/ \E c \in Calls : getAllEventsCount(c, FALSE)
    \/ \E c \in Calls, e \in KnownEvents, l \in SliceLimits, p \in SlicePages :
          getRelatedEventsByCategoryStart(c, BogusId, e, l, p, FALSE)
    \/ \E c \in Calls : getRelatedEventsByCategoryFind(c, FALSE)
    \/ \E c \in Calls : getRelatedEventsByCategoryCount(c, FALSE)
    \/ \E c \in Calls, l \in SliceLimits, p \in SlicePages :
          getEventsByUserStart(c, 1, l, p, FALSE)
    \/ \E c \in Calls : getEventsByUserFind(c, FALSE)
    \/ \E c \in Calls : getEventsByUserCount(c, FALSE)

SpecSlices == InitSlices /\ [][NextSlices]_vars

(* SpecPagination: one Pagination control, rendered for any page and
   number of pages, clicked any number of times. *)
PaginationParameters ==
    {<<"a">>, <<"a", "=", "1">>, <<"a", "=", "+">>, <<"p", "a", "g", "e", "=", "2">>,
     <<"o", "=", "1">>}

PaginationSearches ==
    {Join(ps, "&") : ps \in UNION {[1..n -> PaginationParameters] : n \in 0..2}}

InitPagination ==
    /\ users = << >>
    /\ events = << >>
    /\ categories = << >>
    /\ orders = << >>
    /\ nextId = [user |-> 1, event |-> 1, category |-> 1, order |-> 1]
    /\ now = 1
    /\ \E page \in {toString(n) : n \in 0..(MaxTotalPages + 1)}, totalPages \in 0..MaxTotalPages,
          urlParamName \in {<< >>, <<"o">>}, search \in PaginationSearches :
          calls = [c \in Calls |-> IF c = 1
                                   THEN Pagination(page, totalPages, urlParamName, search)
                                   ELSE Idle]
    /\ last = NoCall

NextPagination ==
    \E c \in Calls, btnType \in {"prev", "next"}, pathname \in Pathnames :
        onClick(c, btnType, pathname)

SpecPagination == InitPagination /\ [][NextPagination]_vars

(* ------------------------------- claims ------------------------------- *)
DataLayerOps ==
    {"createUser", "getUserById", "updateUser", "deleteUser", "createCategory",
     "getAllCategories", "createEvent", "getEventById", "getAllEvents", "updateEvent",
     "deleteEvent", "getRelatedEventsByCategory", "getEventsByUser", "createOrder",
     "getOrdersByEvent", "getOrdersByUser"}

C4_DeleteEventCleansUp ==
    (last.op = "deleteEvent" /\ last.outcome = "returned"
         /\ last.obs.deletedEvent # BogusId) =>
        /\ \A u \in DOMAIN users : last.obs.deletedEvent \notin users[u].events
        /\ \A o \in DOMAIN orders : orders[o].event # last.obs.deletedEvent

\* C5 as stated: whatever createEvent and createOrder store refers to
\* documents that exist at the moment of the write.
C5_ReferencesExistAtWrite ==
    [][ /\ \A e \in DOMAIN events' \ DOMAIN events :
              /\ Exists(users, events'[e].organizer)
              /\ Exists(categories, events'[e].category)
        /\ \A o \in DOMAIN orders' \ DOMAIN orders :
              /\ Exists(events, orders'[o].event)
              /\ Exists(users, orders'[o].buyer)
      ]_vars

\* C5, amended: createEvent goes on to its write only when its lookup found a
\* user with id userId, and the event it stores has that user as organizer;
\* a call whose lookup finds no user stores nothing.
C5_OrganizerFoundAtLookup ==
    [][ /\ \A c \in Calls :
              (calls[c].op # "createEvent" /\ calls'[c].op = "createEvent") =>
                  Exists(users, calls'[c].args.userId)
        /\ \A e \in DOMAIN events' \ DOMAIN events :
              \E c \in Calls : /\ calls[c].op = "createEvent"
                               /\ calls'[c] = Idle
                               /\ events'[e].organizer = calls[c].args.userId
        /\ (last'.op = "createEvent" /\ last'.outcome = "threw") => events' = events
      ]_vars

\* createEvent has stored an event
C5_Witness ==
    /\ last.op = "createEvent" /\ last.outcome = "returned"
    /\ Exists(events, last.value.id)
    /\ events[last.value.id].organizer = last.args.userId

\* C10: deleteUser returns the deleted user when it found and deleted one,
\* and null when its lookup finds no user.
C10_DeleteUserReturnsNullWhenNotFound ==
    (last.op = "deleteUser" /\ last.obs.userToDelete = BogusId) =>
        /\ last.outcome = "returned"
        /\ last.value = Null

\* C6: what checkoutOrder throws to its caller is the very error raised by
\* the session creation or by the redirect after it, never a wrapped or
\* generic one, nothing is logged, and one invocation asks for one session
C6_CheckoutRethrowsSameError ==
    last.op = "checkoutOrder" =>
        /\ last.outcome = "threw"
        /\ last.thrown = last.obs.raised
        /\ (last.obs.redirected <=> last.thrown = NextRedirect)
        /\ (~last.obs.redirected => last.thrown \in StripeErrors)
        /\ last.logs = 0
        /\ last.obs.sessionsCreated = 1

C6_Witness ==
    /\ last.op = "checkoutOrder"
    /\ last.thrown.name = "StripeCardError"
    /\ ~last.obs.redirected
    /\ \E c \in Calls : calls[c].op = "checkoutOrder"

\* C7: a page returned by getAllEvents, getRelatedEventsByCategory,
\* getEventsByUser or getOrdersByUser has totalPages = ceil(count / limit):
\* the least number of pages of `limit` documents that hold the `count`
\* stored documents matching the conditions the page was selected with,
\* 0 when nothing matches; limit is the one given, or 6, 3, 6, 3
C7_PagedOps ==
    {"getAllEvents", "getRelatedEventsByCategory", "getEventsByUser", "getOrdersByUser"}

C7_Count ==
    IF last.op = "getOrdersByUser"
    THEN Cardinality({o \in DOMAIN orders : orders[o].buyer = last.obs.conditions.buyer})
    ELSE Cardinality({e \in DOMAIN events : MatchEvent(last.obs.conditions, e)})

C7_Limit ==
    IF last.args.limit # Unset THEN last.args.limit
    ELSE CASE last.op = "getAllEvents" -> 6
           [] last.op = "getRelatedEventsByCategory" -> 3
           [] last.op = "getEventsByUser" -> 6
           [] last.op = "getOrdersByUser" -> 3

C7_TotalPagesIsCeil ==
    (last.op \in C7_PagedOps /\ last.outcome = "returned") =>
        /\ last.value.totalPages * C7_Limit >= C7_Count
        /\ (last.value.totalPages - 1) * C7_Limit < C7_Count
        /\ last.value.totalPages >= 0
        /\ (C7_Count = 0 => last.value.totalPages = 0)

C7_Witness ==
    /\ last.op = "getAllEvents" /\ last.outcome = "returned"
    /\ last.args.limit = 2 /\ last.args.category = <<"A">>
    /\ Cardinality(DOMAIN events) = 3
    /\ C7_Count = 3
    /\ last.value.totalPages = 2

\* the values a key has in a query string, none when the key is absent
C8_ValuesOf(query, key) ==
    IF key \in DOMAIN parse(query) THEN parse(query)[key] ELSE << >>

\* ... and those of them that are not null (the key was given with '=')
C8_GivenValuesOf(query, key) ==
    SelectSeq(C8_ValuesOf(query, key), LAMBDA v : v # Null)

C8_KeysOf(query) == DOMAIN parse(query)

\* C8 as stated: formUrlQuery fed the query part of its own result gives the
\* same URL, the result has exactly one value for key, equal to value, and
\* every other key of params is in the result with the value it had
C8_FormUrlQueryKeepsEveryKey ==
    last.op = "formUrlQuery" =>
        /\ last.obs.round = 2 => last.value = last.obs.previous
        /\ C8_ValuesOf(QueryPart(last.value), last.args.key) = <<Str(last.args.value)>>
        /\ \A k \in C8_KeysOf(last.args.params) \ {last.args.key} :
              /\ k \in C8_KeysOf(QueryPart(last.value))
              /\ C8_ValuesOf(QueryPart(last.value), k) = C8_ValuesOf(last.args.params, k)

\* C8 as amended: the same, except that every other key keeps the values it
\* was given with '=' and only those; a key given without a value is dropped
C8_FormUrlQueryKeepsGivenValues ==
    last.op = "formUrlQuery" =>
        /\ last.obs.round = 2 => last.value = last.obs.previous
        /\ C8_ValuesOf(QueryPart(last.value), last.args.key) = <<Str(last.args.value)>>
        /\ C8_KeysOf(QueryPart(last.value)) \subseteq C8_KeysOf(last.args.params) \cup {last.args.key}
        /\ \A k \in C8_KeysOf(last.args.params) \ {last.args.key} :
              C8_ValuesOf(QueryPart(last.value), k) = C8_GivenValuesOf(last.args.params, k)

C8_Witness ==
    /\ last.op = "formUrlQuery" /\ last.obs.round = 2
    /\ last.args.key = <<"p">>
    /\ last.value = <<"/", "?", "a", "=", "%20", "&", "p", "=", "%26">>
    /\ calls[1] = Idle

\* C9 as stated: the result of removeKeysFromQuery has none of the keys in
\* keysToRemove and every other key of params with the value it had, fed the
\* query part of its own result it gives the same URL, and when no key of
\* keysToRemove is in params the result has the keys and values of params
C9_RemoveKeysKeepsEveryOtherKey ==
    last.op = "removeKeysFromQuery" =>
        LET removed == {last.args.keysToRemove[i] : i \in DOMAIN last.args.keysToRemove}
            before == C8_KeysOf(last.args.params)
            after == C8_KeysOf(QueryPart(last.value)) IN
        /\ after \cap removed = {}
        /\ \A k \in before \ removed :
              /\ k \in after
              /\ C8_ValuesOf(QueryPart(last.value), k) = C8_ValuesOf(last.args.params, k)
        /\ last.obs.round = 2 => last.value = last.obs.previous
        /\ before \cap removed = {} => parse(QueryPart(last.value)) = parse(last.args.params)

\* C9 as amended: the same, with "the value it had" read as the values the
\* key was given with '='; a key given without a value is dropped, also
\* when nothing is removed
C9_RemoveKeysKeepsGivenValues ==
    last.op = "removeKeysFromQuery" =>
        LET removed == {last.args.keysToRemove[i] : i \in DOMAIN last.args.keysToRemove}
            before == C8_KeysOf(last.args.params)
            after == C8_KeysOf(QueryPart(last.value)) IN
        /\ after \cap removed = {}
        /\ after \subseteq before
        /\ \A k \in before \ removed :
              C8_ValuesOf(QueryPart(last.value), k) = C8_GivenValuesOf(last.args.params, k)
        /\ last.obs.round = 2 => last.value = last.obs.previous

C9_Witness ==
    /\ last.op = "removeKeysFromQuery" /\ last.obs.round = 2
    /\ last.args.keysToRemove = <<<<"a">>>>
    /\ last.obs.previous = <<"/", "?", "p", "=", "1", "&", "p", "=", "%26">>
    /\ last.value = last.obs.previous

\* the events of a returned page
C11_Returned == {last.value.data[i] : i \in DOMAIN last.value.data}

\* C11: getAllEvents returns only events whose title matches the query, when
\* one is given, and only events of the category that has the given name,
\* when one is given: none when no stored category has that name
C11_GetAllEventsFilters ==
    (last.op = "getAllEvents" /\ last.outcome = "returned") =>
        \A e \in C11_Returned \cap DOMAIN events :
            /\ last.args.query # << >> =>
                  Contains(ToLower(events[e].title), ToLower(last.args.query))
            /\ last.args.category # << >> =>
                  /\ events[e].category \in DOMAIN categories
                  /\ ToLower(categories[events[e].category].name) = ToLower(last.args.category)

C12_ReadOps ==
    {"getUserById", "getAllCategories", "getEventById", "getAllEvents",
     "getRelatedEventsByCategory", "getEventsByUser", "getOrdersByEvent", "getOrdersByUser"}

\* a step of one of the read handlers: a step of an invocation in flight,
\* or a whole invocation that leaves nothing in flight
C12_ReadStep ==
    \/ \E c \in Calls : /\ calls'[c] # calls[c]
                        /\ (calls[c].op \in C12_ReadOps \/ calls'[c].op \in C12_ReadOps)
    \/ calls' = calls /\ last'.op \in C12_ReadOps

\* C12: no step of getUserById, getAllCategories, getEventById, getAllEvents,
\* getRelatedEventsByCategory, getEventsByUser, getOrdersByEvent or
\* getOrdersByUser changes the user, event, category or order collection,
\* whether the handler goes on, returns or throws
C12_ReadsLeaveStoreUnchanged ==
    [][C12_ReadStep =>
          /\ users' = users /\ events' = events
          /\ categories' = categories /\ orders' = orders
          /\ nextId' = nextId]_vars

C12_Witness ==
    /\ last.op = "getOrdersByUser" /\ last.failed
    /\ users # << >> /\ events # << >> /\ orders # << >> /\ categories # << >>

C13_Ops == {"getAllEvents", "getRelatedEventsByCategory", "getEventsByUser"}

\* the invocations that have selected their page
C13_Selected == {c \in Calls : calls[c].op \in C13_Ops /\ calls[c].pc = "count"}

C13_Data(c) == {calls[c].data[i] : i \in DOMAIN calls[c].data}

C13_Matching(c) == {e \in DOMAIN events : MatchEvent(calls[c].obs.conditions, e)}

C13_TotalPages(c) ==
    CHOOSE n \in 0..MaxPageDocs :
        /\ n * calls[c].obs.limit >= Cardinality(C13_Matching(c))
        /\ (n - 1) * calls[c].obs.limit < Cardinality(C13_Matching(c))

\* C13: page p of limit L is the matching events at positions (p-1)*L to
\* p*L-1 of a createdAt-descending order, at most L of them; over an
\* unchanged store two different pages of one query share no event, pages
\* 1..totalPages hold every matching event, a page beyond totalPages is empty
C13_PagesPartition ==
    /\ \A c \in C13_Selected :
          LET p == calls[c].args.page
              L == calls[c].obs.limit IN
          /\ Len(calls[c].data) <= L
          /\ \E s \in SortCreatedAtDesc(events, C13_Matching(c)) :
                calls[c].data = [i \in 1..Len(calls[c].data) |-> s[(p - 1) * L + i]]
          /\ p > C13_TotalPages(c) => calls[c].data = << >>
    /\ \A c, d \in C13_Selected :
          (/\ calls[c].op = calls[d].op
           /\ calls[c].obs = calls[d].obs
           /\ calls[c].args.page # calls[d].args.page) =>
              /\ C13_Data(c) \cap C13_Data(d) = {}
              /\ C13_TotalPages(c) = 2 /\ {calls[c].args.page, calls[d].args.page} = {1, 2}
                     => C13_Data(c) \cup C13_Data(d) = C13_Matching(c)

\* the values a parameter has in a query as the browser reads it
C14_ValuesOf(query, key) ==
    LET pairs == useSearchParams(query)
        named == SelectSeq(pairs, LAMBDA x : x.name = key) IN
    [i \in 1..Len(named) |-> named[i].value]

C14_NamesOf(query) ==
    {useSearchParams(query)[i].name : i \in DOMAIN useSearchParams(query)}

\* a rendered control has Previous disabled exactly when Number(page) <= 1
\* and Next exactly when Number(page) >= totalPages
C14_Disabled ==
    \A c \in Calls : calls[c].op = "Pagination" =>
        /\ calls[c].obs.disabled.prev <=> Number(calls[c].args.page).n <= 1
        /\ calls[c].obs.disabled.next <=> Number(calls[c].args.page).n >= calls[c].args.totalPages

\* a click: the button was enabled, the page parameter of the new URL is the
\* page plus or minus one, every other parameter has the values it had, and
\* a page within 1..totalPages stays there
C14_Click ==
    \A c \in Calls : (calls[c].op = "Pagination" /\ calls'[c] # calls[c]) =>
        LET before == calls[c]
            after == calls'[c]
            p == Number(before.args.page).n
            key == IF before.args.urlParamName = << >> THEN <<"p", "a", "g", "e">>
                   ELSE before.args.urlParamName
            query == QueryPart(last'.value) IN
        /\ last'.op = "onClick"
        /\ last'.args.btnType = "next" =>
              /\ p < before.args.totalPages
              /\ C14_ValuesOf(query, key) = <<toString(p + 1)>>
        /\ last'.args.btnType = "prev" =>
              /\ p > 1
              /\ C14_ValuesOf(query, key) = <<toString(p - 1)>>
        /\ \A k \in (C14_NamesOf(query) \cup C14_NamesOf(before.obs.search)) \ {key} :
              C14_ValuesOf(query, k) = C14_ValuesOf(before.obs.search, k)
        /\ after.args.totalPages = before.args.totalPages
        /\ after.obs.search = query
        /\ (1 <= p /\ p <= before.args.totalPages) =>
              /\ 1 <= Number(after.args.page).n
              /\ Number(after.args.page).n <= after.args.totalPages

\* C14: Previous is disabled exactly when Number(page) <= 1 and Next exactly
\* when Number(page) >= totalPages; a click on an enabled Next or Previous
\* sets the page parameter to page+1 or page-1 and leaves the other query
\* parameters unchanged, so a page in [1, totalPages] stays in [1, totalPages]
C14_PaginationControl == []C14_Disabled /\ [][C14_Click]_vars

C14_Witness ==
    /\ last.op = "onClick" /\ last.args.btnType = "next"
    /\ last.obs.before.args.page = <<"2">> /\ last.obs.before.args.totalPages = 3
    /\ last.obs.before.obs.search = <<"a", "&", "p", "a", "g", "e", "=", "2">>
    /\ last.value = <<"/", "?", "a", "=", "&", "p", "a", "g", "e", "=", "3">>
    /\ calls[1].obs.disabled.next /\ ~calls[1].obs.disabled.prev

\* C15: deleteEvent revalidates path exactly when an event with id eventId
\* was stored and this call deleted it; when none is stored the call deletes
\* nothing, revalidates nothing and fails only if the database does, so a
\* second deleteEvent of the same id changes nothing
C15_DeleteEventRevalidatesIffDeleted ==
    [][(last'.op = "deleteEvent" /\ calls' = calls) =>
          LET e == last'.args.eventId
              existed == e \in DOMAIN events
              deleted == existed /\ e \notin DOMAIN events' IN
          /\ last'.revalidated = (IF deleted THEN {last'.args.path} ELSE {})
          /\ \A d \in DOMAIN events \ {e} : d \in DOMAIN events' /\ events'[d] = events[d]
          /\ DOMAIN events' \subseteq DOMAIN events
          /\ (existed /\ last'.outcome = "returned") => deleted
          /\ ~existed =>
                /\ events' = events
                /\ last'.failed => last'.thrown = handleError(DbFault).thrown
          /\ <<users', categories', orders'>> = <<users, categories, orders>>]_vars

C15_Witness ==
    /\ last.op = "deleteEvent" /\ last.outcome = "returned"
    /\ last.args.eventId # BogusId /\ last.args.eventId < nextId.event
    /\ last.obs.deletedEvent = BogusId
    /\ last.revalidated = {}

\* the invocations of deleteUser that end with this step
C16_Ending == {c \in Calls : calls[c].op = "deleteUser" /\ calls'[c] = Idle}

C17_Ops == {"getUserById", "getEventById", "updateUser", "updateEvent", "createEvent"}

\* the document the invocation that ends with this step looks up is not stored
C17_Missing ==
    CASE last'.op = "getUserById" -> last'.args.userId \notin DOMAIN users
      [] last'.op = "getEventById" -> last'.args.eventId \notin DOMAIN events
      [] last'.op = "updateUser" ->
            \A u \in DOMAIN users : users[u].clerkId # last'.args.clerkId
      [] last'.op = "updateEvent" -> last'.args.eventId \notin DOMAIN events
      [] last'.op = "createEvent" -> last'.args.userId \notin DOMAIN users

\* C17: getUserById, getEventById, updateUser, updateEvent and createEvent
\* throw when the user or event they look up is not stored, a call that
\* throws writes nothing and revalidates nothing, and none of them returns
\* null or undefined
C17_NotFoundIsAnError ==
    [][last'.op \in C17_Ops =>
          /\ (calls' = calls /\ C17_Missing) => last'.outcome = "threw"
          /\ last'.outcome = "threw" =>
                /\ <<users', events', categories', orders'>>
                      = <<users, events, categories, orders>>
                /\ last'.revalidated = {}
          /\ last'.outcome = "returned" => last'.value \notin {Null, Undefined}]_vars

====
